---- MODULE Spec2Model ----
(***************************************************************************)
(* Model of the Gamers Heaven catalog API (src/main.py): the product       *)
(* collection of the document store, the five request handlers and the     *)
(* startup seeding.                                                        *)
(*                                                                         *)
(* Encoding of values                                                      *)
(*   str            a sequence of code points (<<80, 67>> is "PC"), so     *)
(*                  that case folding, regex search, hex parsing and       *)
(*                  sorting are computed and not assumed                   *)
(*   Optional[T]    None is <<>>, a present value v is <<v>>               *)
(*   dict           a record whose DOMAIN is the set of keys it holds      *)
(*   price          an integer number of cents (19.99 is 1999)             *)
(*   rating         an integer number of tenths (4.5 is 45, 5 is 50)       *)
(*   description and image_url are never inspected: they are plain strings *)
(***************************************************************************)
EXTENDS Integers, Sequences, FiniteSets, TLC

VARIABLES
    db,        \* the store handle imported from database: "None" or "client"
    store,     \* the documents of db["product"], in natural (insertion) order
    nextOid,   \* the ObjectId the store assigns to the next inserted document
    created,   \* history: the identifier and the body of each successful create
    started,   \* whether the startup hook has run: requests are served after it
    resp       \* the last request served and its response

vars == <<db, store, nextOid, created, started, resp>>

\* ---------------------------------------------------------------- bounds

\* at most this many documents are created through the API in one behaviour
MaxCreated == 3

\* number of hex digits of an ObjectId string (24 in bson; scaled down)
OidLen == 2

\* ---------------------------------------------------------------- values

None == <<>>

Some(v) == <<v>>

\* Python truthiness of an Optional[str]: None and "" are falsy
Truthy(opt) == opt # None /\ opt[1] # <<>>

\* dict.get(key, default)
DocGet(doc, key, default) == IF key \in DOMAIN doc THEN doc[key] ELSE default

\* str.lower() on one code point (the "i" option of $regex)
Lower(c) == IF c >= 65 /\ c <= 90 THEN c + 32 ELSE c

\* Python's ordering of str: lexicographic on code points
StrLess(a, b) ==
    \E i \in 1..(Len(a) + 1) :
        /\ \A j \in 1..(i - 1) : j <= Len(b) /\ a[j] = b[j]
        /\ \/ i = Len(a) + 1 /\ Len(b) >= i
           \/ i <= Len(a) /\ i <= Len(b) /\ a[i] < b[i]

\* ---------------------------------------------------------------- ObjectId

\* value of one hex digit, -1 when the code point is no hex digit
HexVal(c) ==
    IF c >= 48 /\ c <= 57 THEN c - 48
    ELSE IF c >= 97 /\ c <= 102 THEN c - 87
    ELSE IF c >= 65 /\ c <= 70 THEN c - 55
    ELSE -1

HexChar(v) == IF v < 10 THEN 48 + v ELSE 87 + v

RECURSIVE HexDigits(_, _)
HexDigits(n, k) ==
    IF k = 0 THEN <<>> ELSE Append(HexDigits(n \div 16, k - 1), HexChar(n % 16))

\* str(ObjectId): the fixed-width lower-case hex form
ObjectIdStr(oid) == HexDigits(oid, OidLen)

RECURSIVE HexValue(_)
HexValue(s) ==
    IF s = <<>> THEN 0
    ELSE 16 * HexValue(SubSeq(s, 1, Len(s) - 1)) + HexVal(s[Len(s)])

\* ObjectId(s): None stands for the InvalidId exception
ObjectId(s) ==
    IF Len(s) = OidLen /\ \A i \in 1..Len(s) : HexVal(s[i]) >= 0
    THEN Some(HexValue(s))
    ELSE None

\* ---------------------------------------------------------------- models

RatingDefault == 45

StockDefault == 100

\* pydantic validation of a request body against ProductIn
ProductInValid(raw) ==
    /\ {"title", "price", "category", "platform"} \subseteq DOMAIN raw
    /\ raw.price >= 0
    /\ ("rating" \in DOMAIN raw /\ raw.rating # None)
          => (raw.rating[1] >= 0 /\ raw.rating[1] <= 50)
    /\ "stock" \in DOMAIN raw => raw.stock >= 0

\* the ProductIn instance built from a valid body: defaults filled in
ProductIn(raw) ==
    [title       |-> raw.title,
     description |-> DocGet(raw, "description", None),
     price       |-> raw.price,
     category    |-> raw.category,
     platform    |-> raw.platform,
     image_url   |-> DocGet(raw, "image_url", None),
     rating      |-> DocGet(raw, "rating", Some(RatingDefault)),
     stock       |-> DocGet(raw, "stock", StockDefault)]

\* _doc_to_product with category and platform read from each other's key
doc_to_product_swapped(doc) ==
    [id          |-> ObjectIdStr(doc["_id"]),
     title       |-> DocGet(doc, "title", None),
     description |-> DocGet(doc, "description", None),
     price       |-> DocGet(doc, "price", None),
     category    |-> DocGet(doc, "platform", None),
     platform    |-> DocGet(doc, "category", None),
     image_url   |-> DocGet(doc, "image_url", None),
     rating      |-> DocGet(doc, "rating", Some(RatingDefault)),
     stock       |-> DocGet(doc, "stock", 0)]

\* _doc_to_product: the ProductOut built from a stored document
_doc_to_product(doc) ==
    [id          |-> ObjectIdStr(doc["_id"]),
     title       |-> DocGet(doc, "title", None),
     description |-> DocGet(doc, "description", None),
     price       |-> DocGet(doc, "price", None),
     category    |-> DocGet(doc, "category", None),
     platform    |-> DocGet(doc, "platform", None),
     image_url   |-> DocGet(doc, "image_url", None),
     rating      |-> DocGet(doc, "rating", Some(RatingDefault)),
     stock       |-> DocGet(doc, "stock", 0)]

\* ---------------------------------------------------------------- literals
\* the str literals of src/main.py and of the requests, as code points
S_Coins == <<67, 111, 105, 110, 115>>   \* "Coins"

S_Currency == <<67, 117, 114, 114, 101, 110, 99, 121>>   \* "Currency"

S_Elden_Ring_Runes == <<69, 108, 100, 101, 110, 32, 82, 105, 110, 103, 32, 82, 117, 110, 101, 115>>   \* "Elden Ring Runes"

S_FIFA_Ultimate_Team_Coins == <<70, 73, 70, 65, 32, 85, 108, 116, 105, 109, 97, 116, 101, 32, 84, 101, 97, 109, 32, 67, 111, 105, 110, 115>>   \* "FIFA Ultimate Team Coins"

S_GTA_Online_Money == <<71, 84, 65, 32, 79, 110, 108, 105, 110, 101, 32, 77, 111, 110, 101, 121>>   \* "GTA Online Money"

S_PC == <<80, 67>>   \* "PC"

S_PS5 == <<80, 83, 53>>   \* "PS5"

S_Top_up == <<84, 111, 112, 45, 117, 112>>   \* "Top-up"

S_Valorant_Points_Top_up == <<86, 97, 108, 111, 114, 97, 110, 116, 32, 80, 111, 105, 110, 116, 115, 32, 84, 111, 112, 45, 117, 112>>   \* "Valorant Points Top-up"

S_Xbox == <<88, 98, 111, 120>>   \* "Xbox"

S_elden == <<101, 108, 100, 101, 110>>   \* "elden"

S_currency == <<99, 117, 114, 114, 101, 110, 99, 121>>   \* "currency"

S_pc == <<112, 99>>   \* "pc"

S_X == <<88>>   \* "X"

S_C == <<67>>   \* "C"

S_P == <<80>>   \* "P"

S_aB == <<97, 66>>   \* "aB"

S_Old_Key == <<79, 108, 100, 32, 75, 101, 121>>   \* "Old Key"

S_Keys == <<75, 101, 121, 115>>   \* "Keys"

\* the four fixed sample documents of seed_products
samples ==
    <<[title       |-> S_Elden_Ring_Runes,
       description |-> Some("Fast delivery of in-game currency to boost your journey across the Lands Between."),
       price       |-> 1999,
       category    |-> S_Currency,
       platform    |-> S_PC,
       image_url   |-> Some("https://images.unsplash.com/photo-1605901309584-818e25960a8f?q=80&w=1200&auto=format&fit=crop"),
       rating      |-> Some(49),
       stock       |-> 999],
      [title       |-> S_GTA_Online_Money,
       description |-> Some("Top up your GTA$ balance with trusted, secure delivery."),
       price       |-> 2499,
       category    |-> S_Currency,
       platform    |-> S_PS5,
       image_url   |-> Some("https://images.unsplash.com/photo-1538481199705-c710c4e965fc?q=80&w=1200&auto=format&fit=crop"),
       rating      |-> Some(47),
       stock       |-> 800],
      [title       |-> S_FIFA_Ultimate_Team_Coins,
       description |-> Some("Build your dream squad with instant coin delivery."),
       price       |-> 1499,
       category    |-> S_Coins,
       platform    |-> S_Xbox,
       image_url   |-> Some("https://images.unsplash.com/photo-1543326727-cf6c39b4479f?q=80&w=1200&auto=format&fit=crop"),
       rating      |-> Some(46),
       stock       |-> 1200],
      [title       |-> S_Valorant_Points_Top_up,
       description |-> Some("Secure VP top-up for skins and battle passes."),
       price       |-> 999,
       category    |-> S_Top_up,
       platform    |-> S_PC,
       image_url   |-> Some("https://images.unsplash.com/photo-1607252650355-f7fd0460ccdb?q=80&w=1200&auto=format&fit=crop"),
       rating      |-> Some(48),
       stock       |-> 500]>>

\* ---------------------------------------------------------------- store

\* the $regex operator with option "i", on the fragment the requests use:
\* "." matches any code point but a newline, every other code point matches
\* itself up to case; the search is unanchored
RegexSearch(pattern, text) ==
    \E i \in 0..(Len(text) - Len(pattern)) :
        \A j \in 1..Len(pattern) :
            \/ pattern[j] = 46 /\ text[i + j] # 10
            \/ pattern[j] # 46 /\ Lower(pattern[j]) = Lower(text[i + j])

\* whether a document satisfies a query filter: every key of the filter
Matches(doc, filter_q) ==
    \A k \in DOMAIN filter_q :
        /\ k \in DOMAIN doc
        /\ IF k = "title"
           THEN RegexSearch(filter_q[k].regex, doc[k])
           ELSE doc[k] = filter_q[k]

\* database.get_documents("product", filter_dict, limit): find-many
get_documents(filter_dict, limit) ==
    LET found == SelectSeq(store, LAMBDA d : Matches(d, filter_dict))
    IN  IF Len(found) > limit THEN SubSeq(found, 1, limit) ELSE found

\* db["product"].find_one({"_id": oid}): None when no document has the id
find_one(oid) ==
    LET found == SelectSeq(store, LAMBDA d : d["_id"] = oid)
    IN  IF found = <<>> THEN None ELSE Some(found[1])

RECURSIVE DistinctOf(_, _)
DistinctOf(docs, field) ==
    IF docs = <<>> THEN <<>>
    ELSE LET rest == DistinctOf(SubSeq(docs, 1, Len(docs) - 1), field)
             d    == docs[Len(docs)]
         IN  IF field \notin DOMAIN d \/ \E i \in 1..Len(rest) : rest[i] = d[field]
             THEN rest
             ELSE Append(rest, d[field])

\* db["product"].distinct(field): each value once, in order of first occurrence
distinct(field) == DistinctOf(store, field)

\* db["product"].insert_one(s) for each s of a list: the store assigns the ids
InsertAll(docs) ==
    store \o [i \in 1..Len(docs) |-> docs[i] @@ [_id |-> nextOid + i - 1]]

RECURSIVE sorted(_)
\* sorted(list): insertion sort by the ordering of str
sorted(s) ==
    IF s = <<>> THEN <<>>
    ELSE LET rest == sorted(SubSeq(s, 1, Len(s) - 1))
             x    == s[Len(s)]
             n    == Cardinality({i \in 1..Len(rest) : ~StrLess(x, rest[i])})
         IN  SubSeq(rest, 1, n) \o <<x>> \o SubSeq(rest, n + 1, Len(rest))

\* ---------------------------------------------------------------- handlers

Unavailable == [status |-> "ServiceUnavailable", body |-> None, store_calls |-> 0]

Invalid == [status |-> "InvalidArgument", body |-> None, store_calls |-> 0]

DefaultLimit == 50

\* limit: int = Query(50, ge=1, le=200)
LimitParam(limit) == IF limit = None THEN DefaultLimit ELSE limit[1]

\* the range check without its upper end (le=200 left out)
LimitOk_noUpper(n) == n >= 1

LimitOk(n) == n >= 1 /\ n <= 200

\* the filter list_products builds from its truthy parameters
FilterQ(q, category, platform) ==
    LET keys == {k \in {"title", "category", "platform"} :
                    \/ k = "title" /\ Truthy(q)
                    \/ k = "category" /\ Truthy(category)
                    \/ k = "platform" /\ Truthy(platform)}
    IN  [k \in keys |->
            IF k = "title" THEN [regex |-> q[1], options |-> "i"]
            ELSE IF k = "category" THEN category[1]
            ELSE platform[1]]

\* list_products that does not hand its limit to the store
list_products_nolimit(q, category, platform, limit) ==
    IF ~LimitOk(LimitParam(limit)) THEN Invalid
    ELSE IF db = "None" THEN Unavailable
    ELSE LET docs == get_documents(FilterQ(q, category, platform), Len(store))
         IN  [status |-> "OK",
              body |-> [i \in 1..Len(docs) |-> _doc_to_product(docs[i])],
              store_calls |-> 1,
              store_limit |-> Some(Len(store))]

\* GET /api/products
list_products(q, category, platform, limit) ==
    IF ~LimitOk(LimitParam(limit)) THEN Invalid
    ELSE IF db = "None" THEN Unavailable
    ELSE LET docs == get_documents(FilterQ(q, category, platform), LimitParam(limit))
         IN  [status |-> "OK",
              body |-> [i \in 1..Len(docs) |-> _doc_to_product(docs[i])],
              store_calls |-> 1,
              store_limit |-> Some(LimitParam(limit))]

\* get_product without the try/except around ObjectId(product_id)
get_product_uncaught(product_id) ==
    IF db = "None" THEN Unavailable
    ELSE LET oid == ObjectId(product_id)
             doc == IF oid = None THEN None ELSE find_one(oid[1])
         IN  IF oid = None
             THEN [status |-> "InternalError", body |-> None, store_calls |-> 0]
             ELSE IF doc = None
             THEN [status |-> "NotFound", body |-> None, store_calls |-> 1]
             ELSE [status |-> "OK", body |-> _doc_to_product(doc[1]), store_calls |-> 1]

\* GET /api/products/{product_id}
get_product(product_id) ==
    IF db = "None" THEN Unavailable
    ELSE LET oid == ObjectId(product_id)
             doc == IF oid = None THEN None ELSE find_one(oid[1])
         IN  IF doc = None
             THEN [status |-> "NotFound", body |-> None,
                   store_calls |-> IF oid = None THEN 0 ELSE 1]
             ELSE [status |-> "OK", body |-> _doc_to_product(doc[1]), store_calls |-> 1]

\* get_categories without the "if c" filter
get_categories_unfiltered ==
    IF db = "None" THEN Unavailable
    ELSE [status |-> "OK", body |-> sorted(distinct("category")), store_calls |-> 1]

\* get_categories without the "db is None" check
get_categories_unchecked ==
    LET cats == distinct("category")
    IN  [status |-> "OK",
         body |-> sorted(SelectSeq(cats, LAMBDA c : c # <<>>)),
         store_calls |-> 1]

\* GET /api/categories
get_categories ==
    IF db = "None" THEN Unavailable
    ELSE LET cats == distinct("category")
         IN  [status |-> "OK",
              body |-> sorted(SelectSeq(cats, LAMBDA c : c # <<>>)),
              store_calls |-> 1]

\* GET /api/platforms
get_platforms ==
    IF db = "None" THEN Unavailable
    ELSE LET plats == distinct("platform")
         IN  [status |-> "OK",
              body |-> sorted(SelectSeq(plats, LAMBDA p : p # <<>>)),
              store_calls |-> 1]

\* database.create_document("product", data): insert-one, returns str(_id);
\* the result carries the collection and the id counter after the call
create_document(data) ==
    IF db = "None"
    THEN [status |-> "ServiceUnavailable", body |-> None, store_calls |-> 0,
          store |-> store, nextOid |-> nextOid]
    ELSE [status |-> "OK", body |-> ObjectIdStr(nextOid), store_calls |-> 1,
          store |-> InsertAll(<<data>>), nextOid |-> nextOid + 1]

\* POST /api/products: the body is validated against ProductIn first
create_product(raw) ==
    IF ~ProductInValid(raw)
    THEN [status |-> "InvalidArgument", body |-> None, store_calls |-> 0,
          store |-> store, nextOid |-> nextOid]
    ELSE create_document(ProductIn(raw))


\* ---------------------------------------------------------------- requests

\* a document written to the collection before this process started, by a
\* writer that set only the required fields
legacy == [_id |-> 1, title |-> S_Old_Key, price |-> 500, category |-> S_Keys, platform |-> S_PC]

QInputs == {None, Some(<<>>), Some(S_elden), Some(<<46>>), Some(S_pc)}

CategoryInputs == {None, Some(<<>>), Some(S_Currency), Some(S_currency)}

PlatformInputs == {None, Some(S_PC)}

LimitInputs == {None, Some(-1), Some(0), Some(1), Some(2), Some(200), Some(201)}

Upper(s) == [i \in 1..Len(s) |-> IF s[i] >= 97 /\ s[i] <= 122 THEN s[i] - 32 ELSE s[i]]

\* identifiers asked of get: those of the stored documents, in lower and in
\* upper case, one no document has, and malformed ones (empty, too short,
\* too long, not hexadecimal)
IdInputs ==
    {ObjectIdStr(store[i]["_id"]) : i \in 1..Len(store)}
    \cup {Upper(ObjectIdStr(store[i]["_id"])) : i \in 1..Len(store)}
    \cup {ObjectIdStr(nextOid), <<>>, <<48>>, ObjectIdStr(nextOid) \o <<48>>,
          [i \in 1..OidLen |-> 103]}

bodyMinimal == [title |-> S_X, price |-> 100, category |-> S_C, platform |-> S_P]

bodyFull == [title |-> S_aB, description |-> Some("d"), price |-> 0, category |-> <<>>, platform |-> S_PC, image_url |-> Some("u"), rating |-> Some(50), stock |-> 0]

bodyEmptyTitle == [title |-> <<>>, price |-> 1, category |-> S_Currency, platform |-> <<>>, rating |-> None]

\* request bodies of create: three that ProductIn accepts, and bodies with a
\* negative price, a rating out of range, a negative stock, a missing title
BodyInputs ==
    {bodyMinimal, bodyFull, bodyEmptyTitle,
     [bodyMinimal EXCEPT !.price = -1],
     bodyMinimal @@ [rating |-> Some(51)],
     bodyMinimal @@ [rating |-> Some(-1)],
     bodyMinimal @@ [stock |-> -1],
     [price |-> 100, category |-> S_C, platform |-> S_P]}

\* ---------------------------------------------------------------- actions

\* no response is outstanding
Idle == [op |-> "none", req |-> None, status |-> "OK", body |-> None, store_calls |-> 0, store_limit |-> None]

\* a request is served once the startup hook has run and the previous
\* response has been sent
Serving == started /\ resp = Idle

Init ==
    /\ db \in {"None", "client"}
    /\ store \in {<<>>, <<legacy>>}
    /\ nextOid = 10
    /\ created = <<>>
    /\ started = FALSE
    /\ resp = Idle

\* the response of a handler, with the number of store calls it made and,
\* for list, the limit it handed to the store
Respond(op, req, r) ==
    resp' = [op |-> op, req |-> req, status |-> r.status, body |-> r.body,
             store_calls |-> r.store_calls,
             store_limit |-> DocGet(r, "store_limit", None)]

ListProducts ==
    /\ Serving
    /\ \E q \in QInputs, category \in CategoryInputs, platform \in PlatformInputs,
       limit \in LimitInputs :
        /\ Respond("list",
                   [q |-> q, category |-> category, platform |-> platform, limit |-> limit],
                   list_products(q, category, platform, limit))
        /\ UNCHANGED <<db, store, nextOid, created, started>>

GetProduct ==
    /\ Serving
    /\ \E product_id \in IdInputs :
        /\ Respond("get", [product_id |-> product_id], get_product(product_id))
        /\ UNCHANGED <<db, store, nextOid, created, started>>

GetCategories ==
    /\ Serving
    /\ Respond("categories", None, get_categories)
    /\ UNCHANGED <<db, store, nextOid, created, started>>

GetPlatforms ==
    /\ Serving
    /\ Respond("platforms", None, get_platforms)
    /\ UNCHANGED <<db, store, nextOid, created, started>>

CreateProduct ==
    /\ Serving
    /\ Len(created) < MaxCreated
    /\ \E raw \in BodyInputs :
        LET r == create_product(raw)
        IN  /\ Respond("create", raw, r)
            /\ store' = r.store
            /\ nextOid' = r.nextOid
            /\ created' = IF r.status = "OK"
                          THEN Append(created, [id |-> r.body, product |-> raw])
                          ELSE created
            /\ UNCHANGED <<db, started>>

\* seed_products without the "count > 0" return
seed_products_always ==
    /\ resp = Idle
    /\ IF db = "None"
       THEN /\ UNCHANGED <<store, nextOid>>
            /\ Respond("startup", None, [status |-> "OK", body |-> None, store_calls |-> 0])
       ELSE /\ store' = InsertAll(samples)
            /\ nextOid' = nextOid + Len(samples)
            /\ Respond("startup", None,
                       [status |-> "OK", body |-> None, store_calls |-> 1 + Len(samples)])
    /\ started' = TRUE
    /\ UNCHANGED <<db, created>>

\* the startup hook: seeds the four samples into an empty collection
seed_products ==
    /\ resp = Idle
    /\ IF db = "None"
       THEN /\ UNCHANGED <<store, nextOid>>
            /\ Respond("startup", None, [status |-> "OK", body |-> None, store_calls |-> 0])
       ELSE IF Len(store) > 0
       THEN /\ UNCHANGED <<store, nextOid>>
            /\ Respond("startup", None, [status |-> "OK", body |-> None, store_calls |-> 1])
       ELSE /\ store' = InsertAll(samples)
            /\ nextOid' = nextOid + Len(samples)
            /\ Respond("startup", None,
                       [status |-> "OK", body |-> None, store_calls |-> 1 + Len(samples)])
    /\ started' = TRUE
    /\ UNCHANGED <<db, created>>

\* the response is sent to the client
Deliver ==
    /\ resp # Idle
    /\ resp' = Idle
    /\ UNCHANGED <<db, store, nextOid, created, started>>

Next ==
    \/ seed_products
    \/ ListProducts
    \/ GetProduct
    \/ GetCategories
    \/ GetPlatforms
    \/ CreateProduct
    \/ Deliver

Spec == Init /\ [][Next]_vars


\* ---------------------------------------------------------------- claims

ServiceOps == {"list", "get", "categories", "platforms", "create"}

\* plain case-insensitive containment of needle in text
ContainsI(needle, text) ==
    \E i \in 0..(Len(text) - Len(needle)) :
        \A j \in 1..Len(needle) : Lower(needle[j]) = Lower(text[i + j])

\* a product satisfies every filter of a list request that is present
SatisfiesFilters(p, req) ==
    /\ Truthy(req.q) => ContainsI(req.q[1], p.title)
    /\ Truthy(req.category) => p.category = req.category[1]
    /\ Truthy(req.platform) => p.platform = req.platform[1]

NoFilter(req) == ~Truthy(req.q) /\ ~Truthy(req.category) /\ ~Truthy(req.platform)

\* the limit a list request asks for: 50 when it is omitted
AskedLimit(req) == IF req.limit = None THEN 50 ELSE req.limit[1]

\* C1: with the store available and a valid limit, list() succeeds and
\* returns only products that satisfy all the filters present, q being plain
\* case-insensitive containment in the title, category and platform exact
\* equality; with no filter present no product is excluded (up to the limit)
C1_ListFiltersAreSubstringAnd ==
    (resp.op = "list" /\ db = "client"
        /\ AskedLimit(resp.req) >= 1 /\ AskedLimit(resp.req) <= 200)
    => /\ resp.status = "OK"
       /\ \A i \in 1..Len(resp.body) : SatisfiesFilters(resp.body[i], resp.req)
       /\ NoFilter(resp.req) =>
             \/ Len(resp.body) = Len(store)
             \/ Len(resp.body) = AskedLimit(resp.req)

\* C2: a successful list() returns at most limit products, and an omitted
\* limit is handed to the store as 50
C2_ListAtMostLimit ==
    (resp.op = "list" /\ resp.status = "OK")
    => /\ Len(resp.body) <= AskedLimit(resp.req)
       /\ resp.store_limit = Some(AskedLimit(resp.req))

\* a list that was cut: more documents matched than the limit allows
C2_Witness ==
    /\ resp.op = "list" /\ resp.status = "OK"
    /\ resp.req.limit = Some(1) /\ NoFilter(resp.req)
    /\ Len(store) >= 2 /\ Len(resp.body) = 1

\* C3: list() with a limit <= 0 or >= 201 is rejected with InvalidArgument,
\* returns no product and makes no store call, whatever the other parameters,
\* the store content and the availability of the store
C3_LimitOutOfRangeRejected ==
    (resp.op = "list" /\ resp.req.limit # None
        /\ (resp.req.limit[1] <= 0 \/ resp.req.limit[1] >= 201))
    => /\ resp.status = "InvalidArgument"
       /\ resp.body = None
       /\ resp.store_calls = 0

\* a list request with limit 201 on an available, non-empty store
C3_Witness ==
    /\ resp.op = "list" /\ resp.req.limit = Some(201)
    /\ db = "client" /\ Len(store) > 0
    /\ Truthy(resp.req.q)
    /\ resp.status = "InvalidArgument"

\* an identifier in the store's format: OidLen hexadecimal digits
WellFormedId(s) ==
    /\ Len(s) = OidLen
    /\ \A i \in 1..Len(s) :
          s[i] \in (48..57) \cup (97..102) \cup (65..70)

\* the stored documents an identifier names (hexadecimal digits up to case)
DocsNamed(s) ==
    {i \in 1..Len(store) :
        ObjectIdStr(store[i]["_id"]) = [j \in 1..Len(s) |-> Lower(s[j])]}

\* C4: with the store available, get() answers NotFound for an identifier
\* that is malformed or names no stored document, never another error, and
\* returns a Product only when a stored document has the identifier
C4_GetNotFound ==
    (resp.op = "get" /\ db = "client")
    => LET s == resp.req.product_id
       IN  /\ resp.status \in {"OK", "NotFound"}
           /\ (~WellFormedId(s) \/ DocsNamed(s) = {}) => resp.status = "NotFound"
           /\ resp.status = "OK" =>
                 /\ WellFormedId(s)
                 /\ \E i \in DocsNamed(s) :
                       /\ resp.body.id = ObjectIdStr(store[i]["_id"])
                       /\ resp.body.title = store[i].title

\* get of an identifier of the right length that is not hexadecimal
C4_Witness ==
    /\ resp.op = "get" /\ db = "client" /\ Len(store) > 0
    /\ Len(resp.req.product_id) = OidLen
    /\ ~WellFormedId(resp.req.product_id)
    /\ resp.status = "NotFound"

\* the Product that create followed by get must give for a request body
Expected(id, p) ==
    [id          |-> id,
     title       |-> p.title,
     description |-> IF "description" \in DOMAIN p THEN p.description ELSE None,
     price       |-> p.price,
     category    |-> p.category,
     platform    |-> p.platform,
     image_url   |-> IF "image_url" \in DOMAIN p THEN p.image_url ELSE None,
     rating      |-> IF "rating" \in DOMAIN p THEN p.rating ELSE Some(45),
     stock       |-> IF "stock" \in DOMAIN p THEN p.stock ELSE 100]

\* C5: get() of an identifier that create() returned succeeds and returns the
\* created product: that non-empty identifier, the fields of the input, and
\* rating 4.5 and stock 100 where the input omitted them
C5_CreateGetRoundTrip ==
    \A k \in 1..Len(created) :
        /\ created[k].id # <<>>
        /\ (resp.op = "get" /\ resp.req.product_id = created[k].id)
           => /\ resp.status = "OK"
              /\ resp.body = Expected(created[k].id, created[k].product)

\* get of a product created with rating and stock omitted, after a later
\* create
C5_Witness ==
    \E k \in 1..Len(created) :
        /\ resp.op = "get" /\ resp.req.product_id = created[k].id
        /\ "stock" \notin DOMAIN created[k].product
        /\ "rating" \notin DOMAIN created[k].product
        /\ k < Len(created)
        /\ resp.status = "OK"

\* the values a field takes in the stored documents
FieldValues(field) == {store[i][field] : i \in {j \in 1..Len(store) : field \in DOMAIN store[j]}}

\* a listing of the distinct non-empty values of a field, in ascending order
SortedDistinct(body, field) ==
    /\ \A i \in 1..(Len(body) - 1) : StrLess(body[i], body[i + 1])
    /\ \A i \in 1..Len(body) : body[i] # <<>>
    /\ {body[i] : i \in 1..Len(body)} = FieldValues(field) \ {<<>>}

\* C6: listCategories() and listPlatforms() return the non-empty values of
\* the field present in the store, each once, in ascending order
C6_DistinctSorted ==
    /\ (resp.op = "categories" /\ resp.status = "OK") => SortedDistinct(resp.body, "category")
    /\ (resp.op = "platforms" /\ resp.status = "OK") => SortedDistinct(resp.body, "platform")

\* categories listed from a store that holds an empty category and whose
\* categories are not stored in ascending order
C6_Witness ==
    /\ resp.op = "categories" /\ resp.status = "OK"
    /\ Len(resp.body) >= 3
    /\ <<>> \in FieldValues("category")
    /\ \E i, j \in 1..Len(store) : i < j /\ StrLess(store[j].category, store[i].category)

\* validity of a request's arguments
RequestValid ==
    CASE resp.op = "list" -> AskedLimit(resp.req) >= 1 /\ AskedLimit(resp.req) <= 200
      [] resp.op = "create" ->
            LET p == resp.req
            IN  /\ {"title", "price", "category", "platform"} \subseteq DOMAIN p
                /\ p.price >= 0
                /\ ("rating" \in DOMAIN p /\ p.rating # None) => (p.rating[1] >= 0 /\ p.rating[1] <= 50)
                /\ "stock" \in DOMAIN p => p.stock >= 0
      [] OTHER -> TRUE

\* C7 as stated: with the store unavailable every operation fails with
\* ServiceUnavailable and makes no store call
C7_AlwaysServiceUnavailable ==
    (db = "None" /\ resp.op \in ServiceOps)
    => (resp.status = "ServiceUnavailable" /\ resp.store_calls = 0)

\* C7 as amended: with the store unavailable every operation whose request
\* passes validation fails with ServiceUnavailable, a request that does not
\* is rejected with InvalidArgument, and neither makes a store call
C7_ServiceUnavailableAfterValidation ==
    (db = "None" /\ resp.op \in ServiceOps)
    => /\ resp.store_calls = 0
       /\ resp.body = None
       /\ resp.status = IF RequestValid THEN "ServiceUnavailable" ELSE "InvalidArgument"

\* a list request with a valid limit and a filter, refused for the store
C7_Witness ==
    /\ db = "None" /\ resp.op = "list" /\ Len(store) > 0
    /\ resp.req.limit = Some(2) /\ Truthy(resp.req.q)
    /\ resp.status = "ServiceUnavailable" /\ resp.store_calls = 0

\* C8: with the store available, create() of a body with an empty title, a
\* negative price, a rating outside [0,5] or a negative stock fails with
\* InvalidArgument and makes no store call, so that it persists nothing
C8_CreateRejectsInvalid ==
    (resp.op = "create" /\ db = "client"
        /\ "title" \in DOMAIN resp.req
        /\ \/ resp.req.title = <<>>
           \/ resp.req.price < 0
           \/ "rating" \in DOMAIN resp.req /\ resp.req.rating # None
                /\ (resp.req.rating[1] < 0 \/ resp.req.rating[1] > 50)
           \/ "stock" \in DOMAIN resp.req /\ resp.req.stock < 0)
    => /\ resp.status = "InvalidArgument"
       /\ resp.store_calls = 0

\* a document without its store-assigned identifier
WithoutId(doc) == [k \in DOMAIN doc \ {"_id"} |-> doc[k]]

\* C9: a startup with a reachable store and an empty collection leaves
\* exactly the four sample products in it; a startup with a non-empty
\* collection or an unreachable store leaves the collection as it was
C9_StartupSeeding ==
    [][resp'.op = "startup" =>
          IF db = "client" /\ Len(store) = 0
          THEN /\ Len(store') = 4
               /\ \A i \in 1..4 : WithoutId(store'[i]) = samples[i]
               /\ \A i, j \in 1..4 : i # j => store'[i]["_id"] # store'[j]["_id"]
          ELSE store' = store]_vars

\* a startup that found the seeded collection, possibly grown, and left it
C9_Witness ==
    /\ resp.op = "startup" /\ db = "client" /\ resp.store_calls = 1
    /\ Len(store) >= 4
    /\ \A i \in 1..4 : WithoutId(store[i]) = samples[i]

\* the stored document a returned product was built from
DocOf(p) == store[CHOOSE i \in 1..Len(store) : ObjectIdStr(store[i]["_id"]) = p.id]

\* a product has all nine fields, and the defaults of create where the
\* stored document lacks the field
MappedWithDefaults(p) ==
    /\ DOMAIN p = {"id", "title", "description", "price", "category", "platform",
                   "image_url", "rating", "stock"}
    /\ p.rating = DocGet(DocOf(p), "rating", Some(45))
    /\ p.stock = DocGet(DocOf(p), "stock", 100)

\* C10: every product that list() and get() return has all nine fields, with
\* rating 4.5 where the stored document has no rating and stock 100 where it
\* has no stock
C10_MappingDefaults ==
    /\ (resp.op = "get" /\ resp.status = "OK") => MappedWithDefaults(resp.body)
    /\ (resp.op = "list" /\ resp.status = "OK") =>
          \A i \in 1..Len(resp.body) : MappedWithDefaults(resp.body[i])

====
